---------------------------- MODULE Spec2Model ----------------------------
(***************************************************************************)
(* A model of backend/ai/imageContrast.py (optimize_image_for_ocr) and of  *)
(* backend/ai/schemas.py (the pydantic records Column, Table,              *)
(* Relationship, DatabaseSchema).                                          *)
(*                                                                         *)
(* Spec        : one call of optimize_image_for_ocr, statement by          *)
(*               statement, on every input file of a bounded family.       *)
(* SchemaSpec  : construction of the schema records from keyword           *)
(*               arguments, and the operations a constructed record        *)
(*               accepts afterwards.                                       *)
(*                                                                         *)
(* The Pillow and pydantic calls are modelled by what the libraries do on  *)
(* the values the model draws; each such operator says so.                 *)
(***************************************************************************)
EXTENDS Integers, Sequences, FiniteSets

VARIABLES
    \* ---- optimize_image_for_ocr ----
    pc,                 \* the statement the call is at
    file,               \* what image_path holds on disk
    image,              \* the local `image`
    gray,               \* the local `gray`: one level per pixel
    pixels,             \* the local `pixels`
    total_brightness,   \* the local `total_brightness`
    average_brightness, \* the local `average_brightness`, as a fraction
    stdout,             \* what print() has written
    readHandle,         \* the file object Image.open obtained on image_path
    writeHandle,        \* the file object Image.save obtained on output_path
    outFile,            \* what output_path holds on disk
    writes,             \* completed writes of output_path
    stretches,          \* completed ImageOps.autocontrast calls
    error,              \* the exception that left the call, if any
    \* ---- schemas ----
    pydanticMajor,      \* the installed pydantic major version (1 or 2)
    cls,                \* the class of the last constructor call
    kwargs,             \* the keyword arguments of the last constructor call
    raised,             \* TRUE when that call raised ValidationError
    obj,                \* the record that call returned, as it is now
    mutations           \* operations run on that record since it was constructed

imgVars == <<pc, file, image, gray, pixels, total_brightness,
             average_brightness, stdout, readHandle, writeHandle, outFile,
             writes, stretches, error>>
schemaVars == <<pydanticMajor, cls, kwargs, raised, obj, mutations>>
vars == <<imgVars, schemaVars>>

-----------------------------------------------------------------------------
(* Bounds and sample values                                                *)

\* Largest number of pixels of an input image.
MaxPixels == 3

\* Levels an "L" input image draws its pixels from.
Levels == {0, 100, 127, 128, 255}

\* Colours an "RGB"/"RGBA" input image draws its pixels from: black, white,
\* mid grey, pure red, and two colours that differ in the red channel only.
Colours == {<<0, 0, 0>>, <<255, 255, 255>>, <<128, 128, 128>>, <<255, 0, 0>>,
            <<0, 255, 128>>, <<128, 255, 128>>}

\* Values the alpha channel of an "RGBA" input is drawn from.
AlphaVals == {255}

\* if average_brightness < 128
Threshold == 128

NoImage == [mode |-> "none", px |-> <<>>, loaded |-> FALSE]
\* output_path: not there, or there and empty.
NoFile == [mode |-> "absent", px |-> <<>>, loaded |-> FALSE]
EmptyFile == [mode |-> "empty", px |-> <<>>, loaded |-> FALSE]
\* output_path after a write that failed part way.
PartialFile == [mode |-> "partial", px |-> <<>>, loaded |-> FALSE]

SeqsUpTo(S, n) == UNION {[1..k -> S] : k \in 1..n}

\* The pixels of an input of the given mode: a tuple of channels per pixel.
PixelsOf(mode) ==
    CASE mode = "L"    -> {<<v>> : v \in Levels}
      [] mode = "RGB"  -> Colours
      [] mode = "RGBA" -> {c \o <<a>> : c \in Colours, a \in AlphaVals}

\* What image_path may hold: nothing, bytes no decoder identifies, an image
\* whose header decodes but whose data is cut short, or a whole image.
\* frames > 1 is a multi-frame file (Pillow keeps such a file open after load).
Files ==
    {[kind |-> "missing",   mode |-> "none", px |-> <<>>, frames |-> 0],
     [kind |-> "garbage",   mode |-> "none", px |-> <<>>, frames |-> 0]}
    \cup {[kind |-> "truncated", mode |-> m, px |-> <<>>, frames |-> 1] : m \in {"L", "RGB"}}
    \cup UNION {{[kind |-> "image", mode |-> m, px |-> p, frames |-> f] :
                    p \in SeqsUpTo(PixelsOf(m), MaxPixels), f \in {1, 2}} :
                m \in {"L", "RGB", "RGBA"}}

-----------------------------------------------------------------------------
(* Pillow operations used by optimize_image_for_ocr                        *)

RECURSIVE SumOver(_, _)
\* sum(f[x] for x in S)
SumOver(f, S) ==
    IF S = {} THEN 0
    ELSE LET x == CHOOSE y \in S : TRUE IN f[x] + SumOver(f, S \ {x})

\* Mode conversion to "L" of one pixel (Pillow's rgb2l: the ITU-R 601-2 luma
\* in 16-bit fixed point, rounded; alpha is ignored).
L24(p) == (p[1] * 19595 + p[2] * 38470 + p[3] * 7471 + 32768) \div 65536

\* image.convert('L'): one level per pixel.
ConvertL(im) ==
    [k \in DOMAIN im.px |-> IF im.mode = "L" THEN im.px[k][1] ELSE L24(im.px[k])]

\* image.convert('RGB'): an "L" level is copied to the three channels, the
\* alpha channel of "RGBA" is dropped.
ConvertRGB(im) ==
    [mode |-> "RGB",
     px |-> [k \in DOMAIN im.px |->
                IF im.mode = "L"
                THEN <<im.px[k][1], im.px[k][1], im.px[k][1]>>
                ELSE <<im.px[k][1], im.px[k][2], im.px[k][3]>>],
     loaded |-> TRUE]

\* gray.histogram()[i]: the number of pixels at level i.
HistogramAt(g, i) == Cardinality({k \in DOMAIN g : g[k] = i})

\* The occupied buckets of gray.histogram(); every other bucket of the 256
\* holds 0 and adds nothing to either sum below.
Occupied(g) == {g[k] : k \in DOMAIN g}

\* pixels = sum(histogram)
SumHistogram(g) == SumOver([i \in Occupied(g) |-> HistogramAt(g, i)], Occupied(g))

\* total_brightness = sum(i * w for i, w in enumerate(histogram))
WeightedSum(g) == SumOver([i \in Occupied(g) |-> i * HistogramAt(g, i)], Occupied(g))

\* A comparison that takes an average of exactly 128 for dark.
IsDarkInclusive(avg) == avg.num <= Threshold * avg.den

\* average_brightness < 128. average_brightness is the double nearest to
\* total_brightness / pixels; 128 is a double and rounding is monotone, so the
\* double is below 128 exactly when the fraction is (for fewer than 2^47
\* pixels, beyond any image Pillow opens).
IsDark(avg) == avg.num < Threshold * avg.den

\* The two's-complement negation -v in place of the complement 255 - v.
InvertLutNegate(v) == (256 - v) % 256

\* The lookup table of ImageOps.invert: lut = list(range(255, -1, -1)).
InvertLut(v) == 255 - v

\* ImageOps.invert(im): the table applied to every channel of every pixel.
Invert(im) ==
    [im EXCEPT !.px = [k \in DOMAIN im.px |->
                          [c \in DOMAIN im.px[k] |-> InvertLut(im.px[k][c])]]]

SetMin(S) == CHOOSE x \in S : \A y \in S : x <= y
SetMax(S) == CHOOSE x \in S : \A y \in S : x >= y

\* The values channel c of the image holds.
ChannelValues(im, c) == {im.px[k][c] : k \in DOMAIN im.px}

\* autocontrast computes  int(ix * scale + offset)  in double precision with
\* scale = 255.0 / (hi - lo) and offset = -lo * scale.  On the values the
\* model draws (and their inverses) the double result is the exact quotient floor((ix-lo)*255 /
\* (hi-lo)) except where the rounded product falls just below an integer:
\* 100 * (255.0 / 100) = 254.99999999999997.
FloatShortfall(lo, hi, ix) == IF <<lo, hi, ix>> \in {<<0, 100, 100>>} THEN 1 ELSE 0

Clamp(x) == IF x < 0 THEN 0 ELSE IF x > 255 THEN 255 ELSE x

\* A table that sends a channel of one single value to 0.
StretchLutFlat(lo, hi, ix) ==
    IF hi <= lo
    THEN 0
    ELSE Clamp((((ix - lo) * 255) \div (hi - lo)) - FloatShortfall(lo, hi, ix))

\* A table that divides by the number of levels hi - lo + 1.
StretchLutLevels(lo, hi, ix) ==
    IF hi <= lo
    THEN ix
    ELSE Clamp(((ix - lo) * 255) \div (hi - lo + 1))

\* One entry of the lookup table autocontrast builds for a channel whose
\* lowest and highest occupied histogram buckets are lo and hi.
StretchLut(lo, hi, ix) ==
    IF hi <= lo
    THEN ix                                           \* "don't bother"
    ELSE Clamp((((ix - lo) * 255) \div (hi - lo)) - FloatShortfall(lo, hi, ix))

\* ImageOps.autocontrast(im) with the default cutoff: each channel is
\* remapped with the table of its own lowest and highest value.
Autocontrast(im) ==
    [im EXCEPT !.px = [k \in DOMAIN im.px |->
        [c \in DOMAIN im.px[k] |->
            StretchLut(SetMin(ChannelValues(im, c)), SetMax(ChannelValues(im, c)),
                       im.px[k][c])]]]

\* ImageOps._lut serves modes "L" and "RGB" only; any other mode raises.
LutSupported(mode) == mode \in {"L", "RGB"}

-----------------------------------------------------------------------------
(* optimize_image_for_ocr(image_path, output_path)                         *)

AvgLine == "Average Brightness"
DarkLine == "Detected Dark Mode. Inverting colors..."
LightLine == "Image is already Light Mode. Skipping inversion."
SavedLine == "Saved optimized image to output_path"

\* Python values: a type tag and the value (scalars by their repr).
PyStr(x) == [t |-> "str", v |-> x]
PyInt(digits) == [t |-> "int", v |-> digits]
PyBool(b) == [t |-> "bool", v |-> IF b THEN "True" ELSE "False"]
PyNone == [t |-> "NoneType", v |-> "None"]
PyList(xs) == [t |-> "list", items |-> xs]
PyDict(kw) == [t |-> "dict", kw |-> kw]
\* An instance of one of the four models.
PyModel(c, fields) == [t |-> c, fields |-> fields]
\* A keyword that the call does not pass.
Missing == [t |-> "missing", v |-> ""]

NoObj == [t |-> "none", v |-> ""]
NoKwargs == [none |-> Missing]

\* The schema side at rest, while the image routine runs.
SchemaIdle ==
    /\ pydanticMajor = 0
    /\ cls = "none"
    /\ kwargs = NoKwargs
    /\ raised = FALSE
    /\ obj = NoObj
    /\ mutations = 0

ImgInit ==
    /\ pc = "open"
    /\ file \in Files
    /\ image = NoImage
    /\ gray = <<>>
    /\ pixels = 0
    /\ total_brightness = 0
    /\ average_brightness = [num |-> 0, den |-> 1]
    /\ stdout = <<>>
    /\ readHandle = "none"
    /\ writeHandle = "none"
    /\ outFile = NoFile
    /\ writes = 0
    /\ stretches = 0
    /\ error = "none"

Init == ImgInit /\ SchemaIdle

\* The call ends with exception e leaving it; nothing in the function
\* catches, closes or cleans up (there is no try, with or close()). The
\* exception's traceback keeps the frame, and so the locals, alive.
Raise(e) ==
    /\ pc' = "raised"
    /\ error' = e

\* A missing input swallowed (try/except pass around the load): the call
\* goes on to save.
OpenMissingSwallowed ==
    /\ pc = "open"
    /\ file.kind = "missing"
    /\ pc' = "save_open"
    /\ UNCHANGED <<schemaVars, file, image, gray, pixels, total_brightness,
                   average_brightness, stdout, readHandle, writeHandle, outFile,
                   writes, stretches, error>>

\* line 5: image = Image.open(image_path), the path is missing.
OpenMissing ==
    /\ pc = "open"
    /\ file.kind = "missing"
    /\ Raise("FileNotFoundError")
    /\ UNCHANGED <<schemaVars, file, image, gray, pixels, total_brightness, average_brightness,
                   stdout, readHandle, writeHandle, outFile, writes, stretches>>

\* line 5: no decoder identifies the file: Image.open closes the file it
\* opened and raises UnidentifiedImageError.
OpenGarbage ==
    /\ pc = "open"
    /\ file.kind = "garbage"
    /\ readHandle' = "closed"
    /\ Raise("UnidentifiedImageError")
    /\ UNCHANGED <<schemaVars, file, image, gray, pixels, total_brightness, average_brightness,
                   stdout, writeHandle, outFile, writes, stretches>>

\* line 5: the header decodes. Image.open is lazy: the file stays open and
\* no pixel is read yet.
OpenImage ==
    /\ pc = "open"
    /\ file.kind \in {"truncated", "image"}
    /\ readHandle' = "open"
    /\ image' = [mode |-> file.mode, px |-> <<>>, loaded |-> FALSE]
    /\ pc' = "convert"
    /\ UNCHANGED <<schemaVars, file, gray, pixels, total_brightness, average_brightness,
                   stdout, writeHandle, outFile, writes, stretches, error>>

\* line 10: gray = image.convert('L') loads the pixels first. The data is cut
\* short: load() raises OSError from inside its read loop, before the point
\* where it closes the file.
ConvertTruncated ==
    /\ pc = "convert"
    /\ file.kind = "truncated"
    /\ Raise("OSError")
    /\ UNCHANGED <<schemaVars, file, image, gray, pixels, total_brightness, average_brightness,
                   stdout, readHandle, writeHandle, outFile, writes, stretches>>

\* The file object after a completed load(): closed for a single-frame
\* file, kept open for a multi-frame one (to allow seek()).
HandleAfterLoad(f) == IF f.frames = 1 THEN "closed" ELSE "open"

\* The file object once the last reference to its image is dropped (the
\* local is rebound, or the frame ends on return): the function never closes
\* it, so an open one is closed when the interpreter finalises the image, at
\* once under reference counting, at some later time under a tracing
\* collector.
AfterDrop(h) == IF h = "open" THEN {"open", "closed"} ELSE {h}

\* line 10: gray = image.convert('L'), the data decodes.
ConvertGray ==
    /\ pc = "convert"
    /\ file.kind = "image"
    /\ image' = [mode |-> file.mode, px |-> file.px, loaded |-> TRUE]
    /\ readHandle' = HandleAfterLoad(file)
    /\ gray' = ConvertL(image')
    /\ pc' = "measure"
    /\ UNCHANGED <<schemaVars, file, pixels, total_brightness, average_brightness,
                   stdout, writeHandle, outFile, writes, stretches, error>>

\* lines 11-16: histogram, pixels, total_brightness, average_brightness.
\* (An input has at least one pixel, so the division is defined.)
Measure ==
    /\ pc = "measure"
    /\ pixels' = SumHistogram(gray)
    /\ total_brightness' = WeightedSum(gray)
    /\ average_brightness' = [num |-> total_brightness', den |-> pixels']
    /\ pc' = "print_avg"
    /\ UNCHANGED <<schemaVars, file, image, gray, stdout, readHandle, writeHandle, outFile,
                   writes, stretches, error>>

\* line 18: print(f"Average Brightness: {average_brightness}")
PrintAverage ==
    /\ pc = "print_avg"
    /\ stdout' = Append(stdout, AvgLine)
    /\ pc' = "branch"
    /\ UNCHANGED <<schemaVars, file, image, gray, pixels, total_brightness, average_brightness,
                   readHandle, writeHandle, outFile, writes, stretches, error>>

\* lines 20-23: the dark branch. `image` is rebound to the inverted
\* copy, which drops the image that was opened.
InvertBranch ==
    /\ pc = "branch"
    /\ IsDark(average_brightness)
    /\ stdout' = Append(stdout, DarkLine)
    /\ image' = Invert(ConvertRGB(image))
    /\ readHandle' \in AfterDrop(readHandle)
    /\ pc' = "autocontrast"
    /\ UNCHANGED <<schemaVars, file, gray, pixels, total_brightness, average_brightness,
                   writeHandle, outFile, writes, stretches, error>>

\* The light branch with the autocontrast call indented under the if.
SkipBranchNoStretch ==
    /\ pc = "branch"
    /\ ~IsDark(average_brightness)
    /\ stdout' = Append(stdout, LightLine)
    /\ pc' = "save_open"
    /\ UNCHANGED <<schemaVars, file, image, gray, pixels, total_brightness,
                   average_brightness, readHandle, writeHandle, outFile, writes,
                   stretches, error>>

\* lines 24-25: the light branch.
SkipBranch ==
    /\ pc = "branch"
    /\ ~IsDark(average_brightness)
    /\ stdout' = Append(stdout, LightLine)
    /\ pc' = "autocontrast"
    /\ UNCHANGED <<schemaVars, file, image, gray, pixels, total_brightness, average_brightness,
                   readHandle, writeHandle, outFile, writes, stretches, error>>

\* line 29: image = ImageOps.autocontrast(image)
Stretch ==
    /\ pc = "autocontrast"
    /\ LutSupported(image.mode)
    /\ image' = Autocontrast(image)
    /\ stretches' = stretches + 1
    /\ pc' = "save_open"
    /\ UNCHANGED <<schemaVars, file, gray, pixels, total_brightness, average_brightness,
                   stdout, readHandle, writeHandle, outFile, writes, error>>

\* line 29 on a mode ImageOps has no table for (the light branch leaves an
\* "RGBA" input as it is): OSError.
StretchUnsupported ==
    /\ pc = "autocontrast"
    /\ ~LutSupported(image.mode)
    /\ Raise("OSError")
    /\ UNCHANGED <<schemaVars, file, image, gray, pixels, total_brightness, average_brightness,
                   stdout, readHandle, writeHandle, outFile, writes, stretches>>

\* line 32: image.save(output_path) opens output_path for writing ("w+b",
\* which creates or empties the file).
SaveOpen ==
    /\ pc = "save_open"
    /\ writeHandle' = "open"
    /\ outFile' = EmptyFile
    /\ pc' = "save_write"
    /\ UNCHANGED <<schemaVars, file, image, gray, pixels, total_brightness, average_brightness,
                   stdout, readHandle, writes, stretches, error>>

\* line 32: output_path cannot be opened (its directory is missing or not
\* writable): OSError, no file object is obtained.
SaveOpenFails ==
    /\ pc = "save_open"
    /\ Raise("OSError")
    /\ UNCHANGED <<schemaVars, file, image, gray, pixels, total_brightness, average_brightness,
                   stdout, readHandle, writeHandle, outFile, writes, stretches>>

\* line 32: the encoder writes the image; save() then closes the file.
SaveWrite ==
    /\ pc = "save_write"
    /\ outFile' = image
    /\ writes' = writes + 1
    /\ writeHandle' = "closed"
    /\ pc' = "print_saved"
    /\ UNCHANGED <<schemaVars, file, image, gray, pixels, total_brightness, average_brightness,
                   stdout, readHandle, stretches, error>>

\* line 32: the write fails part way (the device fills up): save() closes
\* the file and re-raises; recent Pillow versions also remove the file they
\* created, older ones leave what was written.
SaveWriteFails ==
    /\ pc = "save_write"
    /\ writeHandle' = "closed"
    /\ outFile' \in {NoFile, PartialFile}
    /\ Raise("OSError")
    /\ UNCHANGED <<schemaVars, file, image, gray, pixels, total_brightness, average_brightness,
                   stdout, readHandle, writes, stretches>>

\* line 33: print(f"Saved optimized image to {output_path}"), then the
\* function returns and its locals are dropped.
PrintSaved ==
    /\ pc = "print_saved"
    /\ stdout' = Append(stdout, SavedLine)
    /\ readHandle' \in AfterDrop(readHandle)
    /\ pc' = "returned"
    /\ UNCHANGED <<schemaVars, file, image, gray, pixels, total_brightness, average_brightness,
                   writeHandle, outFile, writes, stretches, error>>

ImgNext ==
    \/ OpenMissing \/ OpenGarbage \/ OpenImage
    \/ ConvertTruncated \/ ConvertGray
    \/ Measure \/ PrintAverage
    \/ InvertBranch \/ SkipBranch
    \/ Stretch \/ StretchUnsupported
    \/ SaveOpen \/ SaveOpenFails \/ SaveWrite \/ SaveWriteFails
    \/ PrintSaved

Next == ImgNext

Spec == Init /\ [][Next]_vars

-----------------------------------------------------------------------------
(* Properties of optimize_image_for_ocr                                    *)

\* The image the input file decodes to.
Loaded == [mode |-> file.mode, px |-> file.px, loaded |-> TRUE]

RECURSIVE LevelCount(_, _, _)
\* sum(count[level]) over the levels lo..hi of the grayscale histogram.
LevelCount(g, lo, hi) ==
    IF lo = hi THEN HistogramAt(g, lo)
    ELSE LET mid == (lo + hi) \div 2
         IN LevelCount(g, lo, mid) + LevelCount(g, mid + 1, hi)

RECURSIVE LevelWeight(_, _, _)
\* sum(level * count[level]) over the levels lo..hi of the grayscale histogram.
LevelWeight(g, lo, hi) ==
    IF lo = hi THEN lo * HistogramAt(g, lo)
    ELSE LET mid == (lo + hi) \div 2
         IN LevelWeight(g, lo, mid) + LevelWeight(g, mid + 1, hi)

BranchTaken == Len(stdout) >= 2
TookInversion == BranchTaken /\ stdout[2] = DarkLine
TookSkip == BranchTaken /\ stdout[2] = LightLine

Uniform(im) == \A j, k \in DOMAIN im.px : im.px[j] = im.px[k]
AllChannels(im, v) == \A k \in DOMAIN im.px : \A c \in DOMAIN im.px[k] : im.px[k][c] = v
Contains(im, v) == \E k \in DOMAIN im.px : \E c \in DOMAIN im.px[k] : im.px[k][c] = v
EveryChannelHas(im, v) ==
    \A c \in DOMAIN im.px[1] : \E k \in DOMAIN im.px : im.px[k][c] = v

\* C1: when the branch has just been decided, the inversion branch was
\* taken exactly when the mean of the grayscale histogram (over all 256
\* levels) is strictly below 128, and the image handed to the contrast
\* stretch is the inverted RGB image in that case and the loaded image
\* otherwise; half 0 / half 255 (mean 127.5) is inverted and a mean of
\* exactly 128 is not.
C1_InvertIffBelow128 ==
    pc = "autocontrast" =>
        LET weight == LevelWeight(gray, 0, 255)
            count == LevelCount(gray, 0, 255)
            below == weight < 128 * count
        IN /\ count = Len(file.px) /\ count >= 1
           /\ TookInversion <=> below
           /\ TookSkip <=> ~below
           /\ image = IF below THEN Invert(ConvertRGB(Loaded)) ELSE Loaded
           /\ (weight * 2 = 255 * count) => TookInversion
           /\ (weight = 128 * count) => TookSkip

\* C1 witness: the boundary input, one pixel at 0 and one at 255, inverted.
C1_Witness ==
    /\ pc = "autocontrast"
    /\ file.mode = "L"
    /\ gray = <<0, 255>>
    /\ TookInversion
    /\ image.px = <<<<255, 255, 255>>, <<0, 0, 0>>>>

\* C2: the image written for a uniform input (all pixels equal) is uniform;
\* an all-white input is written unchanged through the light branch, and an
\* all-black input is written all-white through the dark branch.
C2_UniformStaysUniform ==
    (file.kind = "image" /\ Uniform(Loaded)) =>
        /\ stretches = 1 => Uniform(image)
        /\ writes = 1 => Uniform(outFile)
        /\ AllChannels(Loaded, 255) =>
              /\ BranchTaken => TookSkip
              /\ stretches = 1 => image = Loaded
              /\ writes = 1 => outFile = Loaded
        /\ AllChannels(Loaded, 0) =>
              /\ BranchTaken => TookInversion
              /\ pc = "autocontrast" => AllChannels(image, 255)
              /\ stretches = 1 => AllChannels(image, 255)
              /\ writes = 1 => AllChannels(outFile, 255)

\* C2 witness: an all-black RGB input of several pixels, written all-white.
C2_Witness ==
    /\ pc = "returned"
    /\ file.mode = "RGB"
    /\ Len(file.px) >= 2
    /\ AllChannels(Loaded, 0)
    /\ AllChannels(outFile, 255)

\* C3 as stated: the contrast stretch changes no pixel of an image that
\* contains the value 0 and the value 255 anywhere.
C3_Original ==
    [][(pc = "autocontrast" /\ pc' = "save_open"
        /\ Contains(image, 0) /\ Contains(image, 255)) => image' = image]_vars

\* C3 amended: the contrast stretch changes no pixel of an image each of
\* whose channels contains both the value 0 and the value 255.
C3_StretchedPerChannel ==
    [][(pc = "autocontrast" /\ pc' = "save_open"
        /\ EveryChannelHas(image, 0) /\ EveryChannelHas(image, 255)) => image' = image]_vars

\* C3 witness: a stretched RGB image with 0, 255 and a value in between in
\* every channel.
C3_Witness ==
    /\ pc = "save_open"
    /\ stretches = 1
    /\ image.mode = "RGB"
    /\ EveryChannelHas(image, 0)
    /\ EveryChannelHas(image, 255)
    /\ EveryChannelHas(image, 127)

\* C4: right after the dark branch every channel value is 255 minus the value
\* of the RGB-converted input, and inverting once more gives that input back.
C4_InvertInvolution ==
    (pc = "autocontrast" /\ TookInversion) =>
        /\ \A k \in DOMAIN image.px : \A c \in 1..3 :
              image.px[k][c] = 255 - ConvertRGB(Loaded).px[k][c]
        /\ Invert(image) = ConvertRGB(Loaded)

\* C4 witness: an inverted image that held values other than 0 and 255.
C4_Witness ==
    /\ pc = "autocontrast"
    /\ TookInversion
    /\ Contains(image, 155)
    /\ Contains(ConvertRGB(Loaded), 100)

\* C5: with a missing or undecodable input the call never gets past the
\* load, it goes on until an exception leaves it, and nothing is written or
\* printed.
C5_BadInputRaises ==
    (file.kind \in {"missing", "garbage", "truncated"}) =>
        /\ pc \in {"open", "convert", "raised"}
        /\ pc = "raised" => error \in {"FileNotFoundError", "UnidentifiedImageError", "OSError"}
        /\ pc # "raised" => ENABLED Next
        /\ outFile = NoFile
        /\ writes = 0
        /\ writeHandle = "none"
        /\ stdout = <<>>

\* C5 witness: the call has ended on an input that is not an image.
C5_Witness ==
    /\ file.kind = "garbage"
    /\ pc = "raised"
    /\ error = "UnidentifiedImageError"

\* C6: when the call has ended, no file object it obtained is still open.
C6_HandlesReleased ==
    pc \in {"returned", "raised"} => (readHandle # "open" /\ writeHandle # "open")

OrderedOutput ==
    /\ Len(stdout) <= 3
    /\ Len(stdout) >= 1 => stdout[1] = AvgLine
    /\ Len(stdout) >= 2 => stdout[2] \in {DarkLine, LightLine}
    /\ Len(stdout) >= 3 => stdout[3] = SavedLine

\* C10: the diagnostics come in the order brightness, branch, saved, three
\* of them on a run that returns; the contrast stretch runs once, after the
\* branch decision, whichever branch was taken; the file is written once,
\* after the stretch, and holds the stretched image; the save confirmation
\* follows the completed write.
C10_LoadTransformSave ==
    /\ OrderedOutput
    /\ stretches <= 1
    /\ writes <= 1
    /\ stretches = 1 => BranchTaken
    /\ outFile # NoFile => stretches = 1
    /\ writes = 1 => (stretches = 1 /\ outFile = image)
    /\ Len(stdout) = 3 => (writes = 1 /\ writeHandle = "closed")
    /\ pc = "returned" => (Len(stdout) = 3 /\ stretches = 1 /\ writes = 1 /\ error = "none")
    /\ pc = "raised" => Len(stdout) < 3

\* C10 witness: a run through the light branch that returned.
C10_Witness ==
    /\ pc = "returned"
    /\ stdout = <<AvgLine, LightLine, SavedLine>>
    /\ stretches = 1
    /\ writes = 1

-----------------------------------------------------------------------------
(* schemas.py: the pydantic models and their validation                    *)

\* Largest number of columns of a Table passed to a constructor.
MaxColumns == 2
\* Largest number of tables of a DatabaseSchema passed to a constructor.
MaxTables == 2
\* Largest number of relationships of a DatabaseSchema passed to a constructor.
MaxRelationships == 1
\* Largest number of operations run on a record after its construction.
MaxMutations == 1

ListsUpTo(S, n) == {PyList(xs) : xs \in {<<>>} \cup SeqsUpTo(S, n)}

Ok(x) == [ok |-> TRUE, val |-> x]
Fail == [ok |-> FALSE, val |-> PyNone]

\* A field annotated `str`. pydantic 1 converts a number to its string,
\* pydantic 2 takes a string only; neither takes None or a missing keyword.
ValidateStr(x) ==
    CASE x.t = "str" -> Ok(x)
      [] x.t = "int" /\ pydanticMajor = 1 -> Ok(PyStr(x.v))
      [] OTHER -> Fail

\* The strings pydantic reads as booleans.
TrueWords == {"1", "on", "t", "true", "y", "yes"}
FalseWords == {"0", "off", "f", "false", "n", "no"}

\* A field annotated `bool`: a bool is kept, the integers 0 and 1 and the
\* boolean words are converted, anything else is an error.
ValidateBool(x) ==
    CASE x.t = "bool" -> Ok(x)
      [] x.t = "int" /\ x.v \in {"0", "1"} -> Ok(PyBool(x.v = "1"))
      [] x.t = "str" /\ x.v \in TrueWords -> Ok(PyBool(TRUE))
      [] x.t = "str" /\ x.v \in FalseWords -> Ok(PyBool(FALSE))
      [] OTHER -> Fail

\* The default of is_primary_key and of is_foreign_key.
DefaultFlagTrue == TRUE
DefaultFlag == FALSE

\* A field with a default: the default when the keyword is not passed.
WithDefault(x, d, r) == IF x.t = "missing" THEN Ok(d) ELSE r

\* class Column(BaseModel): an instance is taken as it is, a mapping is
\* validated field by field.
ValidateColumn(x) ==
    IF x.t = "Column" THEN Ok(x)
    ELSE IF x.t # "dict" THEN Fail
    ELSE LET name == ValidateStr(x.kw.name)
             type == ValidateStr(x.kw.type)
             pk == WithDefault(x.kw.is_primary_key, PyBool(DefaultFlag),
                               ValidateBool(x.kw.is_primary_key))
             fk == WithDefault(x.kw.is_foreign_key, PyBool(DefaultFlag),
                               ValidateBool(x.kw.is_foreign_key))
         IN IF name.ok /\ type.ok /\ pk.ok /\ fk.ok
            THEN Ok(PyModel("Column",
                            [name |-> name.val, type |-> type.val,
                             is_primary_key |-> pk.val, is_foreign_key |-> fk.val]))
            ELSE Fail

\* columns: List[Column]: a list each of whose items validates as a Column.
ValidateColumnList(x) ==
    IF x.t # "list" THEN Fail
    ELSE IF \A i \in DOMAIN x.items : ValidateColumn(x.items[i]).ok
         THEN Ok(PyList([i \in DOMAIN x.items |-> ValidateColumn(x.items[i]).val]))
         ELSE Fail

\* class Table(BaseModel)
ValidateTable(x) ==
    IF x.t = "Table" THEN Ok(x)
    ELSE IF x.t # "dict" THEN Fail
    ELSE LET name == ValidateStr(x.kw.name)
             columns == ValidateColumnList(x.kw.columns)
         IN IF name.ok /\ columns.ok
            THEN Ok(PyModel("Table", [name |-> name.val, columns |-> columns.val]))
            ELSE Fail

\* tables: List[Table]
ValidateTableList(x) ==
    IF x.t # "list" THEN Fail
    ELSE IF \A i \in DOMAIN x.items : ValidateTable(x.items[i]).ok
         THEN Ok(PyList([i \in DOMAIN x.items |-> ValidateTable(x.items[i]).val]))
         ELSE Fail

\* A Relationship whose type must be one of the three the comment lists.
ValidateRelationshipEnum(x) ==
    IF x.t # "dict" THEN Fail
    ELSE IF /\ \A f \in {"from_table", "from_column", "to_table", "to_column", "type"} :
                   ValidateStr(x.kw[f]).ok
            /\ ValidateStr(x.kw.type).val.v \in {"1:1", "1:N", "N:M"}
         THEN Ok(PyModel("Relationship",
                         [f \in {"from_table", "from_column", "to_table", "to_column", "type"}
                             |-> ValidateStr(x.kw[f]).val]))
         ELSE Fail

\* class Relationship(BaseModel): five required strings.
ValidateRelationship(x) ==
    IF x.t = "Relationship" THEN Ok(x)
    ELSE IF x.t # "dict" THEN Fail
    ELSE IF \A f \in {"from_table", "from_column", "to_table", "to_column", "type"} :
                ValidateStr(x.kw[f]).ok
         THEN Ok(PyModel("Relationship",
                         [f \in {"from_table", "from_column", "to_table", "to_column", "type"}
                             |-> ValidateStr(x.kw[f]).val]))
         ELSE Fail

\* relationships: List[Relationship]
ValidateRelationshipList(x) ==
    IF x.t # "list" THEN Fail
    ELSE IF \A i \in DOMAIN x.items : ValidateRelationship(x.items[i]).ok
         THEN Ok(PyList([i \in DOMAIN x.items |-> ValidateRelationship(x.items[i]).val]))
         ELSE Fail

\* class DatabaseSchema(BaseModel)
ValidateDatabaseSchema(x) ==
    IF x.t # "dict" THEN Fail
    ELSE LET tables == ValidateTableList(x.kw.tables)
             relationships == ValidateRelationshipList(x.kw.relationships)
         IN IF tables.ok /\ relationships.ok
            THEN Ok(PyModel("DatabaseSchema",
                            [tables |-> tables.val, relationships |-> relationships.val]))
            ELSE Fail

(* Arguments the constructors are called with                              *)

ColumnKw(n, ty, pk, fk) ==
    [name |-> n, type |-> ty, is_primary_key |-> pk, is_foreign_key |-> fk]
TableKw(n, cols) == [name |-> n, columns |-> cols]
RelationshipKw(ft, fc, tt, tc, ty) ==
    [from_table |-> ft, from_column |-> fc, to_table |-> tt, to_column |-> tc, type |-> ty]
SchemaKw(ts, rs) == [tables |-> ts, relationships |-> rs]

FlagArgs == {Missing, PyBool(TRUE), PyBool(FALSE), PyInt("1"), PyInt("2"), PyStr("yes")}

ColumnArgs ==
    {ColumnKw(n, ty, pk, fk) :
        n \in {Missing, PyStr("id"), PyInt("1"), PyNone},
        ty \in {Missing, PyStr("INTEGER"), PyInt("1")},
        pk \in FlagArgs, fk \in FlagArgs}

\* Items of a `columns` list: mappings (a bare column, one without a name,
\* one with an integer flag) and a Column instance.
SampleColumns ==
    {PyDict(ColumnKw(PyStr("id"), PyStr("INTEGER"), Missing, Missing)),
     PyDict(ColumnKw(Missing, PyStr("TEXT"), Missing, Missing)),
     PyDict(ColumnKw(PyStr("user_id"), PyStr("INTEGER"), PyInt("1"), PyBool(TRUE))),
     ValidateColumn(PyDict(ColumnKw(PyStr("id"), PyStr("INTEGER"), PyBool(TRUE), Missing))).val}

TableArgs ==
    {TableKw(n, cols) :
        n \in {Missing, PyStr("users"), PyStr("orders")},
        cols \in {Missing, PyStr("id")} \cup ListsUpTo(SampleColumns, MaxColumns)}

RelationshipArgs ==
    {RelationshipKw(ft, PyStr("id"), tt, tc, ty) :
        ft \in {Missing, PyStr("users"), PyStr("ghost")},
        tt \in {PyStr("orders"), PyStr("ghost")},
        tc \in {PyStr("id"), PyInt("1")},
        ty \in {Missing, PyStr("1:N"), PyStr("many")}}

IdColumn == PyDict(ColumnKw(PyStr("id"), PyStr("INTEGER"), PyBool(TRUE), Missing))

\* Items of a `tables` list: two well-formed tables and one without columns.
SampleTables ==
    {PyDict(TableKw(PyStr("users"), PyList(<<IdColumn>>))),
     PyDict(TableKw(PyStr("orders"), PyList(<<>>))),
     PyDict(TableKw(PyStr("broken"), Missing))}

\* Items of a `relationships` list: one between listed tables, one to a
\* table that is not listed, one of an unlisted type, one without a type.
SampleRelationships ==
    {PyDict(RelationshipKw(PyStr("users"), PyStr("id"), PyStr("orders"), PyStr("id"), PyStr("1:N"))),
     PyDict(RelationshipKw(PyStr("users"), PyStr("id"), PyStr("ghost"), PyStr("id"), PyStr("1:N"))),
     PyDict(RelationshipKw(PyStr("users"), PyStr("id"), PyStr("orders"), PyStr("id"), PyStr("many"))),
     PyDict(RelationshipKw(PyStr("users"), PyStr("id"), PyStr("orders"), PyStr("id"), Missing))}

SchemaArgs ==
    {SchemaKw(ts, rs) :
        ts \in {Missing} \cup ListsUpTo(SampleTables, MaxTables),
        rs \in {Missing, PyNone} \cup ListsUpTo(SampleRelationships, MaxRelationships)}

\* Values assigned to a field, or appended to a list field, after construction.
AssignValues == {PyStr("renamed"), PyNone}

(* Operations                                                              *)

\* The image routine at rest, while the schema side runs.
ImgIdle ==
    /\ pc = "idle"
    /\ file = [kind |-> "missing", mode |-> "none", px |-> <<>>, frames |-> 0]
    /\ image = NoImage
    /\ gray = <<>>
    /\ pixels = 0
    /\ total_brightness = 0
    /\ average_brightness = [num |-> 0, den |-> 1]
    /\ stdout = <<>>
    /\ readHandle = "none"
    /\ writeHandle = "none"
    /\ outFile = NoFile
    /\ writes = 0
    /\ stretches = 0
    /\ error = "none"

SchemaInit ==
    /\ ImgIdle
    /\ pydanticMajor \in {1, 2}
    /\ cls = "none"
    /\ kwargs = NoKwargs
    /\ raised = FALSE
    /\ obj = NoObj
    /\ mutations = 0

\* A constructor call: the record validation returns, or ValidationError.
\* A behaviour follows one record, from the call that constructs it.
Construct(c, kw, r) ==
    /\ cls = "none"
    /\ cls' = c
    /\ kwargs' = kw
    /\ raised' = ~r.ok
    /\ obj' = IF r.ok THEN r.val ELSE NoObj
    /\ mutations' = 0
    /\ UNCHANGED <<imgVars, pydanticMajor>>

\* Column(**kw)
NewColumn == \E kw \in ColumnArgs : Construct("Column", kw, ValidateColumn(PyDict(kw)))

\* Table(**kw)
NewTable == \E kw \in TableArgs : Construct("Table", kw, ValidateTable(PyDict(kw)))

\* Relationship(**kw)
NewRelationship ==
    \E kw \in RelationshipArgs : Construct("Relationship", kw, ValidateRelationship(PyDict(kw)))

\* DatabaseSchema(**kw)
NewDatabaseSchema ==
    \E kw \in SchemaArgs : Construct("DatabaseSchema", kw, ValidateDatabaseSchema(PyDict(kw)))

\* record.field = x. The classes set no model configuration (neither frozen
\* nor validate_assignment), so BaseModel stores the value as it comes.
SetAttr ==
    /\ obj.t # "none"
    /\ mutations < MaxMutations
    /\ \E f \in DOMAIN obj.fields : \E x \in AssignValues : obj' = [obj EXCEPT !.fields[f] = x]
    /\ mutations' = mutations + 1
    /\ UNCHANGED <<imgVars, pydanticMajor, cls, kwargs, raised>>

\* record.field.append(x) on a field that holds a list.
AppendItem ==
    /\ obj.t # "none"
    /\ mutations < MaxMutations
    /\ \E f \in DOMAIN obj.fields : \E x \in AssignValues :
          /\ obj.fields[f].t = "list"
          /\ obj' = [obj EXCEPT !.fields[f] = PyList(Append(obj.fields[f].items, x))]
    /\ mutations' = mutations + 1
    /\ UNCHANGED <<imgVars, pydanticMajor, cls, kwargs, raised>>

SchemaNext ==
    \/ NewColumn \/ NewTable \/ NewRelationship \/ NewDatabaseSchema
    \/ SetAttr \/ AppendItem

SchemaSpec == SchemaInit /\ [][SchemaNext]_vars

-----------------------------------------------------------------------------
(* Properties of the schema records                                        *)

\* The constructor call has just been made.
Constructed == cls # "none" /\ mutations = 0

StrFields(c) ==
    CASE c = "Column" -> {"name", "type"}
      [] c = "Table" -> {"name"}
      [] c = "Relationship" -> {"from_table", "from_column", "to_table", "to_column", "type"}
      [] OTHER -> {}

\* A value of exactly the declared type.
IsStr(x) == x.t = "str"
IsBool(x) == x.t = "bool"

\* A value pydantic takes for the declared type, converting it if need be.
TakenAsStr(x) == x.t = "str" \/ (x.t = "int" /\ pydanticMajor = 1)
TakenAsBool(x) ==
    \/ x.t = "bool"
    \/ (x.t = "int" /\ x.v \in {"0", "1"})
    \/ (x.t = "str" /\ x.v \in TrueWords \cup FalseWords)

\* Keyword arguments with every required field present and every passed
\* value good for its field, S and B saying what is good for str and bool.
ColumnFits(kw, S(_), B(_)) ==
    /\ S(kw.name) /\ S(kw.type)
    /\ \A f \in {"is_primary_key", "is_foreign_key"} : kw[f].t = "missing" \/ B(kw[f])
ColumnItemFits(x, S(_), B(_)) ==
    x.t = "Column" \/ (x.t = "dict" /\ ColumnFits(x.kw, S, B))
TableFits(kw, S(_), B(_)) ==
    /\ S(kw.name)
    /\ kw.columns.t = "list"
    /\ \A i \in DOMAIN kw.columns.items : ColumnItemFits(kw.columns.items[i], S, B)
TableItemFits(x, S(_), B(_)) ==
    x.t = "Table" \/ (x.t = "dict" /\ TableFits(x.kw, S, B))
RelationshipFits(kw, S(_)) == \A f \in StrFields("Relationship") : S(kw[f])
RelationshipItemFits(x, S(_)) ==
    x.t = "Relationship" \/ (x.t = "dict" /\ RelationshipFits(x.kw, S))
SchemaFits(kw, S(_), B(_)) ==
    /\ kw.tables.t = "list"
    /\ \A i \in DOMAIN kw.tables.items : TableItemFits(kw.tables.items[i], S, B)
    /\ kw.relationships.t = "list"
    /\ \A i \in DOMAIN kw.relationships.items :
          RelationshipItemFits(kw.relationships.items[i], S)
Fits(c, kw, S(_), B(_)) ==
    CASE c = "Column" -> ColumnFits(kw, S, B)
      [] c = "Table" -> TableFits(kw, S, B)
      [] c = "Relationship" -> RelationshipFits(kw, S)
      [] c = "DatabaseSchema" -> SchemaFits(kw, S, B)

\* C7 as stated: construction fails exactly when a required field is
\* missing or a value is not of its field's declared type.
C7_Original ==
    Constructed => (raised <=> ~Fits(cls, kwargs, IsStr, IsBool))

\* C7 amended: construction fails exactly when a required field is missing
\* or a value is one pydantic does not take for the field's declared type
\* (it converts some values of another type, such as the integer 1 for a
\* bool); nothing else is checked, an empty DatabaseSchema is valid, and a
\* call that does not fail returns a record of the class.
C7_StructuralOnly ==
    Constructed =>
        /\ raised <=> ~Fits(cls, kwargs, TakenAsStr, TakenAsBool)
        /\ raised <=> obj.t = "none"
        /\ ~raised => obj.t = cls
        /\ (/\ cls = "DatabaseSchema"
            /\ kwargs.tables.t = "list" /\ kwargs.tables.items = <<>>
            /\ kwargs.relationships.t = "list" /\ kwargs.relationships.items = <<>>)
              => ~raised

\* C7 witness: a DatabaseSchema with the table name "users" twice and a
\* relationship to a table that is not in it, constructed without error.
C7_Witness ==
    /\ Constructed
    /\ cls = "DatabaseSchema"
    /\ ~raised
    /\ Len(obj.fields.tables.items) = 2
    /\ obj.fields.tables.items[1].fields.name = PyStr("users")
    /\ obj.fields.tables.items[2].fields.name = PyStr("users")
    /\ Len(obj.fields.relationships.items) = 1
    /\ obj.fields.relationships.items[1].fields.to_table = PyStr("ghost")

\* C8: an operation on a constructed record (an assignment to a field, an
\* append to a list field) leaves every field of the record as it was.
C8_Immutable ==
    [][(obj.t # "none" /\ mutations' = mutations + 1) => obj' = obj]_vars

\* C9: a Column constructed from a name and a type alone has both flags
\* False; a flag passed as a bool is kept; any combination of the two flags,
\* both True included, is accepted.
C9_ColumnFlagDefaults ==
    (Constructed /\ cls = "Column") =>
        /\ (IsStr(kwargs.name) /\ IsStr(kwargs.type)
            /\ \A f \in {"is_primary_key", "is_foreign_key"} :
                  kwargs[f].t = "missing" \/ IsBool(kwargs[f]))
              => (~raised /\ obj.fields.name = kwargs.name /\ obj.fields.type = kwargs.type)
        /\ ~raised =>
              \A f \in {"is_primary_key", "is_foreign_key"} :
                  /\ kwargs[f].t = "missing" => obj.fields[f] = PyBool(FALSE)
                  /\ IsBool(kwargs[f]) => obj.fields[f] = kwargs[f]
                  /\ IsBool(obj.fields[f])

\* C9 witness: Column(name="id", type="INTEGER") with both flags False.
C9_Witness ==
    /\ Constructed
    /\ cls = "Column"
    /\ kwargs = ColumnKw(PyStr("id"), PyStr("INTEGER"), Missing, Missing)
    /\ ~raised
    /\ obj.fields.is_primary_key = PyBool(FALSE)
    /\ obj.fields.is_foreign_key = PyBool(FALSE)

=============================================================================
